---- MODULE Spec2Model ----
(***************************************************************************)
(* Model of dnd5e_sr/data.py: the Dice formula parser and evaluator, the   *)
(* description classifier Spell._getdescriptions and the scaling-dice      *)
(* aggregator Spell._get_scaling_dice.                                     *)
(*                                                                         *)
(* Python text is a sequence of one-character strings.  A Python value     *)
(* that may be None, a str or an int is a record tagged "none", "str" or   *)
(* "int"; the payload field is named after the tag, so values of different *)
(* kinds are never compared payload against payload.                       *)
(***************************************************************************)
EXTENDS Integers, Sequences, FiniteSets, TLC

VARIABLES
    formula,    \* Dice._formula: the text a Dice is constructed from
    pc,         \* Dice.__init__: "new" before the call, then "built" or "failed";
                \* "seeded" once the values of the next randint calls are fixed
    dice,       \* Dice.multiplier, Dice.die, Dice.operator, Dice.modifier
    err,        \* the exception Dice.__init__ raised, or "none"
    draws,      \* the values randint returns to roll_results, in call order
    rollOut,    \* what Dice.roll() returned or raised
    textOut,    \* what Dice.roll_as_text() returned or raised
    rendered,   \* what the property Dice.formula returned
    entries,    \* Spell._json["entries"]
    idx,        \* the number of entries the loop of _getdescriptions has passed
    descs,      \* the list descs of _getdescriptions
    descErr,    \* the exception _getdescriptions raised, or "none"
    sld,        \* Spell._json.get("scalingLevelDice")
    sdpc,       \* _get_scaling_dice: "start", "loop", "done" or "raised"
    tbl,        \* the table getdice is reading, counted from 1
    pos,        \* the number of items the loop of getdice has passed
    resultdict, \* the dict resultdict of getdice
    results,    \* the list results of _get_scaling_dice
    sdErr       \* the exception _get_scaling_dice raised, or "none"

vars == <<formula, pc, dice, err, draws, rollOut, textOut, rendered,
          entries, idx, descs, descErr,
          sld, sdpc, tbl, pos, resultdict, results, sdErr>>

diceVars == <<formula, pc, dice, err, draws, rollOut, textOut, rendered>>
descVars == <<entries, idx, descs, descErr>>
scalVars == <<sld, sdpc, tbl, pos, resultdict, results, sdErr>>

----------------------------------------------------------------------------
(* Bounds of the model. *)

\* longest formula text of the exhaustive text specification
MaxLen == 5
\* largest literal multiplier of the generated formulas
MaxMult == 2
\* largest literal die size of the generated formulas
MaxDie == 6
\* largest absolute value of a literal modifier of the generated formulas
MaxMod == 3
\* largest literal number of the literal-formula specification
MaxLit == 12
\* most entries of a spell's "entries" list
MaxEntries == 3
\* most levels of one "scaling" mapping
MaxLevels == 2
\* most tables of a "scalingLevelDice" list
MaxTables == 2

----------------------------------------------------------------------------
(* Python values. *)

None == [tag |-> "none"]
Str(s) == [tag |-> "str", str |-> s]
Int_(n) == [tag |-> "int", int |-> n]

\* bool(v) of None, a str or an int
Truthy(v) ==
    CASE v.tag = "none" -> FALSE
      [] v.tag = "str"  -> v.str # ""
      [] v.tag = "int"  -> v.int # 0

\* decoded JSON: a str whose characters the code does not read, a str given by
\* its characters, a list, and an object as a function of its keys
JStr(s) == [j |-> "str", s |-> s]
JText(cs) == [j |-> "str", chars |-> cs]
JList(v) == [j |-> "list", v |-> v]
JObj(f) == [j |-> "obj", f |-> f]

----------------------------------------------------------------------------
(* Python str operations on texts. *)

DIE_CHAR == "d"

Digits == <<"0", "1", "2", "3", "4", "5", "6", "7", "8", "9">>

\* c.isdigit() for the ASCII characters of the model
IsDigit(c) == \E i \in 1..10 : Digits[i] = c

DigitVal(c) == (CHOOSE i \in 1..10 : Digits[i] = c) - 1

\* c in s
Contains(s, c) == \E i \in 1..Len(s) : s[i] = c

\* s.count(c)
Count(s, c) == Cardinality({i \in 1..Len(s) : s[i] = c})

\* s.index(c), 0-based as in Python; the caller has checked Contains(s, c)
Index(s, c) == (CHOOSE i \in 1..Len(s) : s[i] = c /\ \A j \in 1..(i - 1) : s[j] # c) - 1

\* s.split(c): the parts between the occurrences of c
RECURSIVE Split(_, _)
Split(s, c) ==
    IF ~Contains(s, c) THEN <<s>>
    ELSE LET i == Index(s, c) + 1
         IN  <<SubSeq(s, 1, i - 1)>> \o Split(SubSeq(s, i + 1, Len(s)), c)

\* s.strip(): whitespace removed at both ends
RECURSIVE Strip(_)
Strip(s) ==
    IF s = <<>> THEN s
    ELSE IF s[1] = " " THEN Strip(Tail(s))
    ELSE IF s[Len(s)] = " " THEN Strip(SubSeq(s, 1, Len(s) - 1))
    ELSE s

RECURSIVE DigitsVal(_)
DigitsVal(s) ==
    IF s = <<>> THEN 0
    ELSE 10 * DigitsVal(SubSeq(s, 1, Len(s) - 1)) + DigitVal(s[Len(s)])

AllDigits(s) == s # <<>> /\ \A i \in 1..Len(s) : IsDigit(s[i])

\* int(s): surrounding whitespace is ignored, one optional sign, then one or
\* more decimal digits; anything else raises ValueError (ok = FALSE)
PyInt(s) ==
    LET t == Strip(s)
        signed == t # <<>> /\ t[1] \in {"+", "-"}
        body == IF signed THEN Tail(t) ELSE t
    IN  IF AllDigits(body)
        THEN [ok |-> TRUE,
              val |-> IF signed /\ t[1] = "-" THEN 0 - DigitsVal(body) ELSE DigitsVal(body)]
        ELSE [ok |-> FALSE, val |-> 0]

RECURSIVE NatToStr(_)
NatToStr(n) ==
    IF n < 10 THEN <<Digits[n + 1]>>
    ELSE NatToStr(n \div 10) \o <<Digits[(n % 10) + 1]>>

\* str(n) of an int, as an f-string renders it
IntToStr(n) == IF n < 0 THEN <<"-">> \o NatToStr(0 - n) ELSE NatToStr(n)

\* the characters of the words "multiplier" and "modifier"
MULTIPLIER_WORD == <<"m", "u", "l", "t", "i", "p", "l", "i", "e", "r">>
MODIFIER_WORD == <<"m", "o", "d", "i", "f", "i", "e", "r">>

----------------------------------------------------------------------------
(* Dice._validate_input and Dice._parse. *)

\* Dice._validate_input: the exception it raises, or "none"
ValidateInput(f) ==
    IF ~Contains(f, DIE_CHAR) THEN "ValueError"
    ELSE LET index == Index(f, DIE_CHAR)
         IN  IF index = Len(f) THEN "ValueError"
             \* self._formula[index + 1] past the end of the text
             ELSE IF index + 1 >= Len(f) THEN "IndexError"
             ELSE IF ~IsDigit(f[index + 2]) THEN "ValueError"
             ELSE IF Count(f, DIE_CHAR) > 1 THEN "ValueError"
             ELSE "none"

NoDice == [multiplier |-> None, die |-> 0, operator |-> None, modifier |-> None]

Raised(e) == [err |-> e, dice |-> NoDice]

\* the multiplier of Dice._parse: the placeholder word, an int, or None
ParseMultiplier(m) ==
    IF m # <<>> /\ Contains(m, "{") THEN [ok |-> TRUE, val |-> Str("multiplier")]
    ELSE IF m # <<>>
         THEN [ok |-> PyInt(m).ok, val |-> Int_(PyInt(m).val)]
         ELSE [ok |-> TRUE, val |-> None]

\* the operator split of Dice._parse: die text, operator and modifier text;
\* unpacking more than two parts raises ValueError (ok = FALSE)
SplitTail(t) ==
    IF Contains(t, "+")
    THEN LET p == Split(t, "+")
         IN  [ok |-> Len(p) = 2, die |-> p[1], operator |-> Str("+"),
              text |-> IF Len(p) >= 2 THEN p[2] ELSE <<>>]
    ELSE IF Contains(t, "-")
    THEN LET p == Split(t, "-")
         IN  [ok |-> Len(p) = 2, die |-> p[1], operator |-> Str("-"),
              text |-> IF Len(p) >= 2 THEN p[2] ELSE <<>>]
    ELSE [ok |-> TRUE, die |-> t, operator |-> None, text |-> <<>>]

\* the modifier of Dice._parse: a non-empty modifier text becomes None (brace
\* token) or an int; an empty one, and None, stay as they are
ParseModifier(present, text) ==
    IF present /\ text # <<>>
    THEN IF Contains(text, "{") THEN [ok |-> TRUE, val |-> None]
         ELSE [ok |-> PyInt(text).ok, val |-> Int_(PyInt(text).val)]
    ELSE [ok |-> TRUE, val |-> IF present THEN Str("") ELSE None]

\* Dice._parse: the exception raised, or the four parsed fields
Parse(f) ==
    IF ValidateInput(f) # "none" THEN Raised(ValidateInput(f))
    ELSE LET parts == Split(f, DIE_CHAR)
             mult == ParseMultiplier(parts[1])
             tail == SplitTail(parts[2])
             die == PyInt(tail.die)
             modf == ParseModifier(tail.operator # None, tail.text)
         IN  IF ~mult.ok THEN Raised("ValueError")
             ELSE IF ~tail.ok THEN Raised("ValueError")
             ELSE IF ~die.ok THEN Raised("ValueError")
             ELSE IF ~modf.ok THEN Raised("ValueError")
             ELSE [err |-> "none",
                   dice |-> [multiplier |-> mult.val, die |-> die.val,
                             operator |-> tail.operator, modifier |-> modf.val]]

----------------------------------------------------------------------------
(* Dice.formula, Dice.roll_results, Dice.roll and Dice.roll_as_text. *)

\* Formula with the placeholder branch taken for every truthy multiplier
FormulaStarred(d) ==
    LET multiplier == IF Truthy(d.multiplier)
                      THEN (IF d.multiplier.tag = "int" THEN IntToStr(d.multiplier.int)
                            ELSE MULTIPLIER_WORD) \o <<"*">>
                      ELSE <<>>
        operator == IF Truthy(d.operator) THEN <<d.operator.str>> ELSE <<>>
        modifier == IF Truthy(d.operator) /\ ~Truthy(d.modifier) THEN MODIFIER_WORD
                    ELSE IF Truthy(d.modifier) THEN IntToStr(d.modifier.int)
                    ELSE <<>>
    IN  multiplier \o <<DIE_CHAR>> \o IntToStr(d.die) \o operator \o modifier

\* Dice.formula: the formula as parsed, rendered back to text
Formula(d) ==
    LET multiplier == IF d.multiplier = Str("multiplier") THEN MULTIPLIER_WORD \o <<"*">>
                      ELSE IF Truthy(d.multiplier) THEN IntToStr(d.multiplier.int)
                      ELSE <<>>
        operator == IF Truthy(d.operator) THEN <<d.operator.str>> ELSE <<>>
        modifier == IF Truthy(d.operator) /\ ~Truthy(d.modifier) THEN MODIFIER_WORD
                    ELSE IF Truthy(d.modifier) THEN IntToStr(d.modifier.int)
                    ELSE <<>>
    IN  multiplier \o <<DIE_CHAR>> \o IntToStr(d.die) \o operator \o modifier

\* the multiplier Dice.roll_results hands to range(): 0 for a falsy multiplier
\* and for the str "multipier", the multiplier itself otherwise
RangeArg(d) ==
    IF ~Truthy(d.multiplier) \/ d.multiplier = Str("multipier") THEN Int_(0)
    ELSE d.multiplier

\* the number of randint(1, die) calls of one evaluation of roll_results that
\* return a value
NumDraws(d) ==
    LET m == RangeArg(d)
    IN  IF m.tag # "int" \/ m.int <= 0 \/ d.die < 1 THEN 0 ELSE m.int

\* the values the randint calls of one evaluation can return, in call order
DrawSeqs(d) == [1..NumDraws(d) -> 1..d.die]

\* Dice.roll_results with the randint calls returning rs: range() of a str
\* raises TypeError, randint(1, die) with die < 1 raises ValueError
RollResults(d, rs) ==
    LET m == RangeArg(d)
    IN  IF m.tag # "int" THEN [err |-> "TypeError", results |-> <<>>]
        ELSE IF m.int > 0 /\ d.die < 1 THEN [err |-> "ValueError", results |-> <<>>]
        ELSE [err |-> "none", results |-> rs]

RECURSIVE Sum(_)
Sum(s) == IF s = <<>> THEN 0 ELSE s[1] + Sum(Tail(s))

\* self.modifier if self.modifier else 0
ModifierOrZero(d) == IF Truthy(d.modifier) THEN d.modifier.int ELSE 0

\* Roll with the modifier applied twice
RollModifierTwice(d, rs) ==
    LET rr == RollResults(d, rs)
        result == Sum(rr.results)
    IN  IF rr.err # "none" THEN [err |-> rr.err, val |-> 0]
        ELSE IF d.operator = Str("+")
        THEN [err |-> "none", val |-> result + 2 * ModifierOrZero(d)]
        ELSE IF d.operator = Str("-")
        THEN [err |-> "none", val |-> result - 2 * ModifierOrZero(d)]
        ELSE [err |-> "none", val |-> result]

\* Dice.roll with the randint calls returning rs
Roll(d, rs) ==
    LET rr == RollResults(d, rs)
        result == Sum(rr.results)
    IN  IF rr.err # "none" THEN [err |-> rr.err, val |-> 0]
        ELSE IF d.operator = Str("+") THEN [err |-> "none", val |-> result + ModifierOrZero(d)]
        ELSE IF d.operator = Str("-") THEN [err |-> "none", val |-> result - ModifierOrZero(d)]
        ELSE [err |-> "none", val |-> result]

\* "+".join(f"[{result}]" for result in results)
RECURSIVE JoinResults(_)
JoinResults(rs) ==
    IF rs = <<>> THEN <<>>
    ELSE IF Len(rs) = 1 THEN <<"[">> \o IntToStr(rs[1]) \o <<"]">>
    ELSE <<"[">> \o IntToStr(rs[1]) \o <<"]", "+">> \o JoinResults(Tail(rs))

\* RollAsText with the "-" branch left out: the total of a subtracting
\* formula is rendered without its modifier
RollAsTextNoMinus(d, rs) ==
    LET rr == RollResults(d, rs)
        total == Sum(rr.results)
        text_results == JoinResults(rr.results)
    IN  IF rr.err # "none" THEN [err |-> rr.err, text |-> <<>>]
        ELSE IF Truthy(d.modifier) /\ d.operator = Str("+")
        THEN [err |-> "none",
              text |-> IntToStr(total + d.modifier.int) \o <<" ", "(">> \o text_results
                       \o <<" ", "+", " ">> \o IntToStr(d.modifier.int) \o <<")">>]
        ELSE [err |-> "none",
              text |-> IntToStr(total) \o <<" ", "(">> \o text_results \o <<")">>]

\* Dice.roll_as_text with the randint calls returning rs
RollAsText(d, rs) ==
    LET rr == RollResults(d, rs)
        total == Sum(rr.results)
        text_results == JoinResults(rr.results)
    IN  IF rr.err # "none" THEN [err |-> rr.err, text |-> <<>>]
        ELSE IF Truthy(d.modifier) /\ d.operator = Str("+")
        THEN [err |-> "none",
              text |-> IntToStr(total + d.modifier.int) \o <<" ", "(">> \o text_results
                       \o <<" ", "+", " ">> \o IntToStr(d.modifier.int) \o <<")">>]
        ELSE IF Truthy(d.modifier) /\ d.operator = Str("-")
        THEN [err |-> "none",
              text |-> IntToStr(total - d.modifier.int) \o <<" ", "(">> \o text_results
                       \o <<" ", "-", " ">> \o IntToStr(d.modifier.int) \o <<")">>]
        ELSE [err |-> "none",
              text |-> IntToStr(total) \o <<" ", "(">> \o text_results \o <<")">>]

----------------------------------------------------------------------------
(* The Dice state machine: construction, then the property and the rolls. *)

NotRolled == [done |-> FALSE, err |-> "none", val |-> 0]
NoText == [done |-> FALSE, err |-> "none", text |-> <<>>]

\* a placeholder brace token of the data files, such as {scale}
BRACE_TOKEN == <<"{", "x", "}">>

MultTexts == {<<>>, BRACE_TOKEN} \cup {IntToStr(m) : m \in 0..MaxMult}
DieTexts == {IntToStr(n) : n \in 0..MaxDie}
ModTexts == {<<>>, BRACE_TOKEN} \cup {IntToStr(k) : k \in (0 - MaxMod)..MaxMod}
TailTexts == {<<>>} \cup {<<op>> \o k : op \in {"+", "-"}, k \in ModTexts}

\* the formula texts of the dice specification: every multiplier text, die
\* size and operator/modifier tail of the bounds
FormulaTexts == {m \o <<DIE_CHAR>> \o n \o t : m \in MultTexts, n \in DieTexts, t \in TailTexts}

\* the characters of the exhaustive text specification
Alphabet == {"d", "+", "-", "{", "X", " ", "0", "1", "2"}

\* every text over Alphabet of at most MaxLen characters
AllTexts == UNION {[1..n -> Alphabet] : n \in 0..MaxLen}

IdleDice ==
    /\ pc = "new"
    /\ dice = NoDice
    /\ err = "none"
    /\ draws = <<>>
    /\ rollOut = NotRolled
    /\ textOut = NoText
    /\ rendered = NoText

IdleDesc ==
    /\ entries = <<>>
    /\ idx = 0
    /\ descs = <<>>
    /\ descErr = "none"

IdleScal ==
    /\ sld = None
    /\ sdpc = "start"
    /\ tbl = 0
    /\ pos = 0
    /\ resultdict = <<>>
    /\ results = <<>>
    /\ sdErr = "none"

Init ==
    /\ formula \in FormulaTexts
    /\ IdleDice
    /\ IdleDesc
    /\ IdleScal

InitText ==
    /\ formula \in AllTexts
    /\ IdleDice
    /\ IdleDesc
    /\ IdleScal

\* Dice.__init__: a Dice with the parsed fields, or the exception of _parse
Construct ==
    /\ pc = "new"
    /\ LET p == Parse(formula)
       IN  /\ pc' = IF p.err = "none" THEN "built" ELSE "failed"
           /\ err' = p.err
           /\ dice' = p.dice
    /\ UNCHANGED <<formula, draws, rollOut, textOut, rendered>>
    /\ UNCHANGED <<descVars, scalVars>>

\* the formula property of a constructed Dice
GetFormula ==
    /\ pc \in {"built", "seeded"}
    /\ ~rendered.done
    /\ rendered' = [done |-> TRUE, err |-> "none", text |-> Formula(dice)]
    /\ UNCHANGED <<formula, pc, dice, err, draws, rollOut, textOut>>
    /\ UNCHANGED <<descVars, scalVars>>

\* the random source is fixed: the values its next randint calls return
Seed ==
    /\ pc = "built"
    /\ \E rs \in DrawSeqs(dice) : draws' = rs
    /\ pc' = "seeded"
    /\ UNCHANGED <<formula, dice, err, rollOut, textOut, rendered>>
    /\ UNCHANGED <<descVars, scalVars>>

\* roll() of the constructed Dice
DoRoll ==
    /\ pc = "seeded"
    /\ ~rollOut.done
    /\ rollOut' = [done |-> TRUE, err |-> Roll(dice, draws).err, val |-> Roll(dice, draws).val]
    /\ UNCHANGED <<formula, pc, dice, err, draws, textOut, rendered>>
    /\ UNCHANGED <<descVars, scalVars>>

\* roll_as_text() of the constructed Dice, the random source replayed
DoRollAsText ==
    /\ pc = "seeded"
    /\ ~textOut.done
    /\ textOut' = [done |-> TRUE, err |-> RollAsText(dice, draws).err,
                   text |-> RollAsText(dice, draws).text]
    /\ UNCHANGED <<formula, pc, dice, err, draws, rollOut, rendered>>
    /\ UNCHANGED <<descVars, scalVars>>

Next == Construct \/ GetFormula \/ Seed \/ DoRoll \/ DoRollAsText

Spec == Init /\ [][Next]_vars

NextText == Construct \/ GetFormula

SpecText == InitText /\ [][NextText]_vars

\* the literal formulas "<m>d<n><op><k>" of positive integers up to MaxLit
LiteralTexts ==
    {IntToStr(m) \o <<DIE_CHAR>> \o IntToStr(n) \o <<op>> \o IntToStr(k) :
        m \in 1..MaxLit, n \in 1..MaxLit, op \in {"+", "-"}, k \in 1..MaxLit}

InitLit ==
    /\ formula \in LiteralTexts
    /\ IdleDice
    /\ IdleDesc
    /\ IdleScal

SpecLit == InitLit /\ [][NextText]_vars

----------------------------------------------------------------------------
(* Spell._getdescriptions. *)

DescriptionQuote(paragraphs, by) ==
    [cls |-> "DescriptionQuote", paragraphs |-> paragraphs, by |-> by]

DescriptionSubsection(name, paragraphs) ==
    [cls |-> "DescriptionSubsection", name |-> name, paragraphs |-> paragraphs]

DescriptionTable(caption, col_labels, rows) ==
    [cls |-> "DescriptionTable", caption |-> caption, col_labels |-> col_labels, rows |-> rows]

\* entry.get(key): the value, or None for a missing key
Get(e, key) == IF key \in DOMAIN e.f THEN e.f[key] ELSE None

\* every key of keys is a key of the object: entry[key] raises KeyError otherwise
HasKeys(e, keys) == keys \subseteq DOMAIN e.f

Classified(v) == [err |-> "none", keep |-> TRUE, val |-> v]
Dropped == [err |-> "none", keep |-> FALSE, val |-> None]
KeyError == [err |-> "KeyError", keep |-> FALSE, val |-> None]

\* ClassifyEntry with an entry of an unknown type appended as None
ClassifyEntryAppendsNone(e) ==
    IF e.j = "str" THEN Classified(e)
    ELSE IF ~HasKeys(e, {"type"}) THEN KeyError
    ELSE IF e.f.type = JStr("list")
         THEN IF HasKeys(e, {"items"}) THEN Classified(e.f.items) ELSE KeyError
    ELSE IF e.f.type = JStr("quote")
         THEN IF HasKeys(e, {"entries", "by"})
              THEN Classified(DescriptionQuote(e.f.entries, e.f.by)) ELSE KeyError
    ELSE IF e.f.type = JStr("entries")
         THEN IF HasKeys(e, {"name", "entries"})
              THEN Classified(DescriptionSubsection(e.f.name, e.f.entries)) ELSE KeyError
    ELSE IF e.f.type = JStr("table")
         THEN IF HasKeys(e, {"colLabels", "rows"})
              THEN Classified(DescriptionTable(Get(e, "caption"), e.f.colLabels, e.f.rows))
              ELSE KeyError
    ELSE Classified(None)

\* the body of the loop of _getdescriptions for one entry: the description
\* appended, nothing appended (a type that is none of the four), or KeyError
ClassifyEntry(e) ==
    IF e.j = "str" THEN Classified(e)
    ELSE IF ~HasKeys(e, {"type"}) THEN KeyError
    ELSE IF e.f.type = JStr("list")
         THEN IF HasKeys(e, {"items"}) THEN Classified(e.f.items) ELSE KeyError
    ELSE IF e.f.type = JStr("quote")
         THEN IF HasKeys(e, {"entries", "by"})
              THEN Classified(DescriptionQuote(e.f.entries, e.f.by)) ELSE KeyError
    ELSE IF e.f.type = JStr("entries")
         THEN IF HasKeys(e, {"name", "entries"})
              THEN Classified(DescriptionSubsection(e.f.name, e.f.entries)) ELSE KeyError
    ELSE IF e.f.type = JStr("table")
         THEN IF HasKeys(e, {"colLabels", "rows"})
              THEN Classified(DescriptionTable(Get(e, "caption"), e.f.colLabels, e.f.rows))
              ELSE KeyError
    ELSE Dropped

\* AppendDesc putting the description at the front of the list
AppendDescFront(ds, v) == <<v>> \o ds

\* descs.append(v)
AppendDesc(ds, v) == Append(ds, v)

\* the entries the description specification draws from: the five shapes of
\* the data files (a table with and without a caption, a quote holding a
\* nested list), an object of another type, and a quote without its "by"
EntryValues == {
    JStr("Intro text."),
    JObj([type |-> JStr("list"), items |-> JList(<<JStr("a"), JStr("b")>>)]),
    JObj([type |-> JStr("quote"), by |-> JStr("Sage"),
          entries |-> JList(<<JStr("Q1"),
                              JObj([type |-> JStr("list"), items |-> JList(<<JStr("n")>>)])>>)]),
    JObj([type |-> JStr("entries"), name |-> JStr("Sub"), entries |-> JList(<<JStr("P1")>>)]),
    JObj([type |-> JStr("table"), caption |-> JStr("Cap"),
          colLabels |-> JList(<<JStr("d8"), JStr("Effect")>>),
          rows |-> JList(<<JList(<<JStr("1"), JStr("x")>>)>>)]),
    JObj([type |-> JStr("table"), colLabels |-> JList(<<JStr("d8")>>),
          rows |-> JList(<<JList(<<JStr("1")>>)>>)]),
    JObj([type |-> JStr("image")]),
    JObj([type |-> JStr("quote"), entries |-> JList(<<JStr("Q2")>>)]) }

InitDesc ==
    /\ formula = <<>>
    /\ IdleDice
    /\ entries \in UNION {[1..n -> EntryValues] : n \in 0..MaxEntries}
    /\ idx = 0
    /\ descs = <<>>
    /\ descErr = "none"
    /\ IdleScal

\* one pass of the loop on an entry that is appended
DescAppend ==
    /\ descErr = "none"
    /\ idx < Len(entries)
    /\ LET c == ClassifyEntry(entries[idx + 1])
       IN  /\ c.err = "none"
           /\ c.keep
           /\ descs' = AppendDesc(descs, c.val)
    /\ idx' = idx + 1
    /\ UNCHANGED <<entries, descErr>>
    /\ UNCHANGED <<diceVars, scalVars>>

\* one pass of the loop on an object whose type matches no branch
DescSkip ==
    /\ descErr = "none"
    /\ idx < Len(entries)
    /\ LET c == ClassifyEntry(entries[idx + 1])
       IN  /\ c.err = "none"
           /\ ~c.keep
    /\ idx' = idx + 1
    /\ UNCHANGED <<entries, descs, descErr>>
    /\ UNCHANGED <<diceVars, scalVars>>

\* one pass of the loop on an object that lacks a key its branch reads
DescRaise ==
    /\ descErr = "none"
    /\ idx < Len(entries)
    /\ ClassifyEntry(entries[idx + 1]).err # "none"
    /\ descErr' = ClassifyEntry(entries[idx + 1]).err
    /\ UNCHANGED <<entries, idx, descs>>
    /\ UNCHANGED <<diceVars, scalVars>>

NextDesc == DescAppend \/ DescSkip \/ DescRaise

SpecDesc == InitDesc /\ [][NextDesc]_vars

\* _getdescriptions has returned its list
DescReturned == descErr = "none" /\ idx = Len(entries)

----------------------------------------------------------------------------
(* Spell._get_scaling_dice. *)

ScalingDice(label, scalingmap) == [cls |-> "ScalingDice", label |-> label, scalingmap |-> scalingmap]

\* the i-th level key of a "scaling" mapping: "5", "11", "17", ...
LevelKey(i) == JText(IntToStr(6 * i - 1))

\* the formula texts of the scaling specification: "1d6", "Xd6" and "2d"
ScalingTexts == {<<"1", "d", "6">>, <<"X", "d", "6">>, <<"2", "d">>}

\* a "scaling" mapping in the order of its keys: one item per level
ScalingMaps ==
    UNION {{[i \in 1..n |-> [k |-> LevelKey(i), v |-> JText(t[i])]] : t \in [1..n -> ScalingTexts]}
           : n \in 0..MaxLevels}

ScalingTables ==
    {JObj([label |-> JStr(l), scaling |-> m]) : l \in {"Damage", "Healing"}, m \in ScalingMaps}

\* the values of "scalingLevelDice": absent, one table, or a list of tables
ScalingInputs ==
    {None} \cup ScalingTables
           \cup {JList(ts) : ts \in UNION {[1..n -> ScalingTables] : n \in 0..MaxTables}}

\* bool(scaling_dice): None and the empty list are falsy
TruthyJ(v) == v # None /\ v # JList(<<>>)

\* the tables getdice is called on, in call order
TablesOf(v) == IF v.j = "list" THEN v.v ELSE <<v>>

\* resultdict.update({k: v})
Update(d, k, v) == [x \in DOMAIN d \cup {k} |-> IF x = k THEN v ELSE d[x]]

\* what getdice stores for one formula text: the Dice, or "modifier" when
\* Dice() raises ValueError; any other exception leaves getdice
GetDiceValue(text) ==
    LET p == Parse(text)
    IN  IF p.err = "none" THEN [err |-> "none", val |-> p.dice]
        ELSE IF p.err = "ValueError" THEN [err |-> "none", val |-> Str("modifier")]
        ELSE [err |-> p.err, val |-> None]

InitScaling ==
    /\ formula = <<>>
    /\ IdleDice
    /\ IdleDesc
    /\ sld \in ScalingInputs
    /\ sdpc = "start"
    /\ tbl = 0
    /\ pos = 0
    /\ resultdict = <<>>
    /\ results = <<>>
    /\ sdErr = "none"

CurrentItems == TablesOf(sld)[tbl].f.scaling

\* _get_scaling_dice up to its first getdice call, or its return of []
SdStart ==
    /\ sdpc = "start"
    /\ IF TruthyJ(sld)
       THEN sdpc' = "loop" /\ tbl' = 1
       ELSE sdpc' = "done" /\ tbl' = tbl
    /\ UNCHANGED <<sld, pos, resultdict, results, sdErr>>
    /\ UNCHANGED <<diceVars, descVars>>

\* one pass of the loop of getdice whose Dice() returns or raises ValueError
SdEntry ==
    /\ sdpc = "loop"
    /\ pos < Len(CurrentItems)
    /\ LET item == CurrentItems[pos + 1]
           g == GetDiceValue(item.v.chars)
       IN  /\ g.err = "none"
           /\ resultdict' = Update(resultdict, item.k, g.val)
    /\ pos' = pos + 1
    /\ UNCHANGED <<sld, sdpc, tbl, results, sdErr>>
    /\ UNCHANGED <<diceVars, descVars>>

\* one pass of the loop of getdice whose Dice() raises another exception,
\* which leaves getdice and _get_scaling_dice
SdRaise ==
    /\ sdpc = "loop"
    /\ pos < Len(CurrentItems)
    /\ LET g == GetDiceValue(CurrentItems[pos + 1].v.chars)
       IN  /\ g.err # "none"
           /\ sdErr' = g.err
    /\ sdpc' = "raised"
    /\ UNCHANGED <<sld, tbl, pos, resultdict, results>>
    /\ UNCHANGED <<diceVars, descVars>>

\* getdice returns its ScalingDice, which is appended to the results; the
\* next table follows, or _get_scaling_dice returns
SdTable ==
    /\ sdpc = "loop"
    /\ pos = Len(CurrentItems)
    /\ results' = Append(results, ScalingDice(TablesOf(sld)[tbl].f.label, resultdict))
    /\ IF tbl < Len(TablesOf(sld))
       THEN tbl' = tbl + 1 /\ sdpc' = sdpc
       ELSE tbl' = tbl /\ sdpc' = "done"
    /\ pos' = 0
    /\ resultdict' = <<>>
    /\ UNCHANGED <<sld, sdErr>>
    /\ UNCHANGED <<diceVars, descVars>>

NextScaling == SdStart \/ SdEntry \/ SdRaise \/ SdTable

SpecScaling == InitScaling /\ [][NextScaling]_vars

----------------------------------------------------------------------------
(* Properties of the Dice parser and evaluator. *)

Constructed == pc \in {"built", "seeded"}

\* the text "<m>d<n><op><k>" of literal integers m, n, k
LitText(m, n, op, k) == IntToStr(m) \o <<DIE_CHAR>> \o IntToStr(n) \o <<op>> \o IntToStr(k)

\* the die marker is absent, repeated, last, or not followed by a digit
MalformedMarker(f) ==
    \/ ~Contains(f, DIE_CHAR)
    \/ Count(f, DIE_CHAR) > 1
    \/ f[Len(f)] = DIE_CHAR
    \/ \E i \in 1..(Len(f) - 1) : f[i] = DIE_CHAR /\ ~IsDigit(f[i + 1])

\* C1: every text whose die marker is absent, repeated, the last character or
\* not followed by a digit fails construction with ValueError and no other
\* error.
C1_MalformedRaisesValueError ==
    (pc # "new" /\ MalformedMarker(formula)) => (pc = "failed" /\ err = "ValueError")

\* C2: a Dice constructed from "d<n>", n >= 1, rolls the value of exactly one
\* die: every result of roll() lies in [1, n].
C2_ImplicitMultiplierRollsOneDie ==
    \A n \in 1..MaxDie :
        (formula = <<DIE_CHAR>> \o IntToStr(n) /\ rollOut.done)
            => (rollOut.err = "none" /\ rollOut.val \in 1..n)

\* the number at the start of a roll_as_text() string, up to its first space
LeadingTotal(t) == PyInt(SubSeq(t, 1, Index(t, " ")))

\* C3: roll() and roll_as_text() evaluated on the same die samples end the
\* same way, and when they return, the total at the start of the text is the
\* value roll() returned.
C3_TextTotalEqualsRoll ==
    (rollOut.done /\ textOut.done)
        => /\ rollOut.err = textOut.err
           /\ rollOut.err = "none"
                => /\ Contains(textOut.text, " ")
                   /\ LeadingTotal(textOut.text).ok
                   /\ LeadingTotal(textOut.text).val = rollOut.val

\* C3 witness: both paths returned for a subtracting formula with a literal
\* non-zero modifier and two die samples.
C3_Witness ==
    /\ rollOut.done /\ textOut.done
    /\ rollOut.err = "none"
    /\ dice.operator = Str("-")
    /\ Truthy(dice.modifier)
    /\ Len(draws) = 2

\* C5: a Dice whose multiplier is the placeholder rolls without raising, draws
\* no die sample and returns 0 with the operator and modifier applied.
C5_PlaceholderMultiplierRollsZero ==
    (Constructed /\ dice.multiplier = Str("multiplier"))
        => /\ rollOut.done
                => /\ rollOut.err = "none"
                   /\ rollOut.val = IF dice.operator = Str("-")
                                     THEN 0 - ModifierOrZero(dice)
                                     ELSE ModifierOrZero(dice)
           /\ textOut.done => textOut.err = "none"
           /\ draws = <<>>

\* C6: the text "<m>d<n><op><k>" of positive integers constructs a Dice with
\* multiplier m, die n, operator op and modifier k, and the formula property
\* renders exactly that text again.
C6_LiteralRoundTrip ==
    \A m \in 1..MaxLit, n \in 1..MaxLit, k \in 1..MaxLit, op \in {"+", "-"} :
        (pc # "new" /\ formula = LitText(m, n, op, k))
            => /\ Constructed
               /\ dice = [multiplier |-> Int_(m), die |-> n,
                          operator |-> Str(op), modifier |-> Int_(k)]
               /\ rendered.done => rendered.text = formula

\* C6 witness: the formula property was read on the Dice of "12d10-11".
C6_Witness ==
    /\ formula = LitText(12, 10, "-", 11)
    /\ Constructed
    /\ rendered.done

\* C7: a Dice of "<m>d<n>+<k>" rolls within [m + k, m*n + k] and a Dice of
\* "<m>d<n>-<k>" within [m - k, m*n - k], whatever the die samples.
C7_RollWithinRange ==
    \A m \in 1..MaxMult, n \in 1..MaxDie, k \in 1..MaxMod :
        /\ (formula = LitText(m, n, "+", k) /\ rollOut.done)
              => (rollOut.err = "none" /\ rollOut.val \in (m + k)..(m * n + k))
        /\ (formula = LitText(m, n, "-", k) /\ rollOut.done)
              => (rollOut.err = "none" /\ rollOut.val \in (m - k)..(m * n - k))

\* C7 witness: "2d6+3" rolled its largest value, 15.
C7_Witness ==
    /\ formula = LitText(2, 6, "+", 3)
    /\ rollOut.done
    /\ rollOut.val = 15

\* C10: a constructed Dice with an operator has a modifier that was present
\* in the text after the operator, and its modifier is an integer or the
\* placeholder sentinel, never anything else.
C10_OperatorHasModifier ==
    (Constructed /\ dice.operator # None)
        => /\ formula[Len(formula)] \notin {"+", "-"}
           /\ dice.modifier.tag \in {"int", "none"}

\* C11: the die of every constructed Dice is a positive integer, so a text
\* whose die size is "0" yields no Dice, and roll() never fails for want of a
\* die face to draw.
C11_DieIsPositive ==
    /\ Constructed => dice.die >= 1
    /\ rollOut.done => rollOut.err # "ValueError"

----------------------------------------------------------------------------
(* Properties of Spell._getdescriptions and Spell._get_scaling_dice. *)

\* the object's type is one of the four the classifier knows
KnownType(e) == e.f.type \in {JStr("list"), JStr("quote"), JStr("entries"), JStr("table")}

\* the entry is a plain string or an object of a known type
Known(e) == e.j = "str" \/ KnownType(e)

\* the description the entry stands for
AsDescription(e) ==
    IF e.j = "str" THEN e
    ELSE IF e.f.type = JStr("list") THEN e.f.items
    ELSE IF e.f.type = JStr("quote") THEN DescriptionQuote(e.f.entries, e.f.by)
    ELSE IF e.f.type = JStr("entries") THEN DescriptionSubsection(e.f.name, e.f.entries)
    ELSE DescriptionTable(IF "caption" \in DOMAIN e.f THEN e.f.caption ELSE None,
                          e.f.colLabels, e.f.rows)

\* C8: the list _getdescriptions returns holds, in source order, the
\* description of every entry of a known shape: the string itself, the items
\* list, a DescriptionQuote, DescriptionSubsection or DescriptionTable of the
\* entry's own values, nested lists kept as given.
C8_DescriptionsInSourceOrder ==
    DescReturned
        => LET known == SelectSeq(entries, Known)
           IN  /\ Len(descs) = Len(known)
               /\ \A i \in 1..Len(known) : descs[i] = AsDescription(known[i])

\* C8 witness: three entries of different known shapes were classified, the
\* quote with its nested list among them.
C8_Witness ==
    /\ DescReturned
    /\ Len(descs) = 3
    /\ descs[1].j = "str"
    /\ descs[2].j = "list"
    /\ descs[3] = DescriptionQuote(
           JList(<<JStr("Q1"), JObj([type |-> JStr("list"), items |-> JList(<<JStr("n")>>)])>>),
           JStr("Sage"))

RECURSIVE DescriptionsOf(_)
\* the descriptions of a list of entries of known shapes
DescriptionsOf(es) ==
    IF es = <<>> THEN <<>> ELSE <<AsDescription(es[1])>> \o DescriptionsOf(Tail(es))

\* the number of objects of an unknown type among the entries
UnknownCount(es) == Cardinality({i \in 1..Len(es) : ~Known(es[i])})

\* C9: an object of an unknown type raises nothing and is absent from the
\* output: an error of _getdescriptions never comes from such an entry (the
\* entry it stopped at is an object of a known type), and the returned list is
\* as long as the entries less the unknown ones and equals the classification
\* of the entries without them.
C9_UnknownTypeDropped ==
    /\ descErr # "none" => (entries[idx + 1].j = "obj" /\ KnownType(entries[idx + 1]))
    /\ DescReturned
          => /\ Len(descs) = Len(entries) - UnknownCount(entries)
             /\ descs = DescriptionsOf(SelectSeq(entries, Known))

\* C9 witness: an object of an unknown type stood between two known entries
\* and the list was returned with the two of them.
C9_Witness ==
    /\ DescReturned
    /\ Len(entries) = 3
    /\ Known(entries[1]) /\ ~Known(entries[2]) /\ Known(entries[3])
    /\ Len(descs) = 2

\* the formula text is malformed under the parser's rules
MalformedText(t) == MalformedMarker(t) \/ Parse(t).err # "none"

\* C4: no exception leaves _get_scaling_dice, and in each returned table every
\* malformed formula text is stored as the placeholder "modifier" and every
\* other one as its parsed Dice.
C4_MalformedEntryBecomesPlaceholder ==
    /\ sdpc # "raised"
    /\ sdErr = "none"
    /\ \A t \in 1..Len(results) :
          LET items == TablesOf(sld)[t].f.scaling
          IN  \A i \in 1..Len(items) :
                  results[t].scalingmap[items[i].k] =
                      IF MalformedText(items[i].v.chars) THEN Str("modifier")
                      ELSE Parse(items[i].v.chars).dice

\* the integer level a JSON key text stands for
LevelOf(k) == Int_(PyInt(k.chars).val)

\* C12: when _get_scaling_dice returns, absent input gave the empty list, a
\* single object one table and a list of n objects n tables in the same
\* order; each table has its object's label and a scalingmap with exactly one
\* entry per key of its "scaling" mapping, keyed by the integer level.
C12_TablesKeyedByIntegerLevel ==
    sdpc = "done"
        => /\ sld = None => results = <<>>
           /\ (sld # None /\ sld.j = "obj") => Len(results) = 1
           /\ (sld # None /\ sld.j = "list") => Len(results) = Len(sld.v)
           /\ \A t \in 1..Len(results) :
                 LET table == TablesOf(sld)[t]
                     items == table.f.scaling
                 IN  /\ results[t].cls = "ScalingDice"
                     /\ results[t].label = table.f.label
                     /\ DOMAIN results[t].scalingmap
                            = {LevelOf(items[i].k) : i \in 1..Len(items)}

====
